---- MODULE Spec2Model ----
(***************************************************************************)
(* Model of backend/providers/providers.go: the task <-> message           *)
(* translation (tasksToMessages) and the task constructors (textToTask,    *)
(* toolToTask, defaultAskTask), with the part of encoding/json they use.   *)
(*                                                                         *)
(* A Go string is a sequence of one-character strings, so that the JSON    *)
(* encoder and decoder work on the text itself: <<>> is the empty string.  *)
(***************************************************************************)
EXTENDS Integers, Sequences, FiniteSets, TLC

\* tasks: the stored task history of the flow, in order
\* prompt: the system prompt of the flow
\* messages: the conversation tasksToMessages returned last
\* arg: the input of the constructor called last
\* ret: what the constructor called last returned
\* pc: where the flow is: "idle", "translated" or "returned"
VARIABLES tasks, prompt, messages, arg, ret, pc

vars == <<tasks, prompt, messages, arg, ret, pc>>

-----------------------------------------------------------------------------
(* Bounds of the model *)

\* longest task history of the translator specification
MaxTasks == 3
\* longest task history of the pipeline specification
MaxFlow == 1

-----------------------------------------------------------------------------
(* Text *)

Quote == "\""
Backslash == "\\"

\* s1 followed by s2 followed by s3
Cat3(s1, s2, s3) == s1 \o s2 \o s3

\* The characters of the model in ASCII order: Go orders map keys bytewise.
Ascii ==
    << " ", "\"", ",", ".", "/", "0", "1", "2", ":", "?", "I", "W", "[", "\\", "]", "_",
       "a", "b", "c", "d", "e", "f", "g", "h", "i", "k", "l", "m", "n", "o",
       "p", "r", "s", "t", "u", "v", "w", "x", "y", "{", "}" >>

Byte(c) == CHOOSE i \in 1..Len(Ascii) : Ascii[i] = c

\* strings.Compare(a, b) < 0
RECURSIVE StrLess(_, _)
StrLess(a, b) ==
    IF b = <<>> THEN FALSE
    ELSE IF a = <<>> THEN TRUE
    ELSE IF Head(a) = Head(b) THEN StrLess(Tail(a), Tail(b))
    ELSE Byte(Head(a)) < Byte(Head(b))

\* the keys of a map in increasing order
RECURSIVE SortKeys(_)
SortKeys(ks) ==
    IF ks = {} THEN <<>>
    ELSE LET least == CHOOSE k \in ks : \A o \in ks \ {k} : StrLess(k, o)
         IN  <<least>> \o SortKeys(ks \ {least})

str_ask == <<"a", "s", "k">>
str_input == <<"i", "n", "p", "u", "t">>
str_terminal == <<"t", "e", "r", "m", "i", "n", "a", "l">>
str_tool == <<"t", "o", "o", "l">>
str_message == <<"m", "e", "s", "s", "a", "g", "e">>
str_null == <<"n", "u", "l", "l">>
str_in_progress == <<"i", "n", "_", "p", "r", "o", "g", "r", "e", "s", "s">>
str_done == <<"d", "o", "n", "e">>
str_emptyObject == <<"{", "}">>
str_terminalError == <<"e", "r", "r", "o", "r">>
str_whatNext ==
    << ".", " ", "W", "h", "a", "t", " ", "s", "h", "o", "u", "l", "d", " ",
       "I", " ", "d", "o", " ", "n", "e", "x", "t", "?" >>

-----------------------------------------------------------------------------
(* encoding/json: the syntax *)

\* A JSON value: k is "str", "num", "null" or "obj"; s the text of a string
\* or number; m the members of an object in the order they were written.
JStr(s) == [k |-> "str", s |-> s, m |-> <<>>]
JNum(s) == [k |-> "num", s |-> s, m |-> <<>>]
JNull == [k |-> "null", s |-> <<>>, m |-> <<>>]
JObj(m) == [k |-> "obj", s |-> <<>>, m |-> m]
Member(key, val) == [key |-> key, val |-> val]

ParseFail == [ok |-> FALSE, val |-> JNull, next |-> 0]
Parsed(v, n) == [ok |-> TRUE, val |-> v, next |-> n]

Digits == {"0", "1", "2"}

RECURSIVE SkipSpace(_, _)
SkipSpace(s, i) ==
    IF i <= Len(s) /\ s[i] = " " THEN SkipSpace(s, i + 1) ELSE i

\* The string literal whose opening quote is just before s[i]; acc is the
\* text decoded so far.  Of the escapes, \" \\ and \/ are modelled.
RECURSIVE ScanString(_, _, _)
ScanString(s, i, acc) ==
    IF i > Len(s) THEN ParseFail
    ELSE IF s[i] = Quote THEN Parsed(JStr(acc), i + 1)
    ELSE IF s[i] = Backslash
         THEN IF i + 1 <= Len(s) /\ s[i + 1] \in {Quote, Backslash, "/"}
              THEN ScanString(s, i + 2, Append(acc, s[i + 1]))
              ELSE ParseFail
    ELSE ScanString(s, i + 1, Append(acc, s[i]))

RECURSIVE ScanDigits(_, _)
ScanDigits(s, i) ==
    IF i <= Len(s) /\ s[i] \in Digits THEN ScanDigits(s, i + 1) ELSE i

RECURSIVE ParseValue(_, _)
RECURSIVE ParseMembers(_, _, _)

\* The value that starts at or after s[i].
ParseValue(s, i) ==
    LET j == SkipSpace(s, i) IN
    IF j > Len(s) THEN ParseFail
    ELSE IF s[j] = Quote THEN ScanString(s, j + 1, <<>>)
    ELSE IF s[j] = "{" THEN
         LET n == SkipSpace(s, j + 1) IN
         IF n <= Len(s) /\ s[n] = "}" THEN Parsed(JObj(<<>>), n + 1)
         ELSE ParseMembers(s, n, <<>>)
    ELSE IF s[j] \in Digits THEN
         LET n == ScanDigits(s, j)
         IN  \* a number has no leading zero
             IF s[j] = "0" /\ n > j + 1 THEN ParseFail
             ELSE Parsed(JNum(SubSeq(s, j, n - 1)), n)
    ELSE IF j + 3 <= Len(s) /\ SubSeq(s, j, j + 3) = str_null
         THEN Parsed(JNull, j + 4)
    ELSE ParseFail

\* The members of an object from s[i] on, up to its closing brace; acc is
\* the members read so far.
ParseMembers(s, i, acc) ==
    LET j == SkipSpace(s, i) IN
    IF j > Len(s) \/ s[j] # Quote THEN ParseFail
    ELSE LET key == ScanString(s, j + 1, <<>>) IN
         IF ~key.ok THEN ParseFail
         ELSE LET c == SkipSpace(s, key.next) IN
              IF c > Len(s) \/ s[c] # ":" THEN ParseFail
              ELSE LET v == ParseValue(s, c + 1) IN
                   IF ~v.ok THEN ParseFail
                   ELSE LET e == SkipSpace(s, v.next)
                            all == Append(acc, Member(key.val.s, v.val))
                        IN  IF e > Len(s) THEN ParseFail
                            ELSE IF s[e] = "}" THEN Parsed(JObj(all), e + 1)
                            ELSE IF s[e] = "," THEN ParseMembers(s, e + 1, all)
                            ELSE ParseFail

\* json's scanner over the whole input: one value and nothing but space
\* after it.
ParseJSON(s) ==
    LET r == ParseValue(s, 1) IN
    IF r.ok /\ SkipSpace(s, r.next) = Len(s) + 1 THEN r ELSE ParseFail

\* A string as json.Marshal writes it: quoted, with " and \ escaped.
RECURSIVE EscapeChars(_)
EscapeChars(s) ==
    IF s = <<>> THEN <<>>
    ELSE (IF Head(s) \in {Quote, Backslash} THEN <<Backslash, Head(s)>>
          ELSE <<Head(s)>>) \o EscapeChars(Tail(s))

QuoteString(s) == Cat3(<<Quote>>, EscapeChars(s), <<Quote>>)

-----------------------------------------------------------------------------
(* encoding/json: Go values *)

\* A map[string]string: nil, or a function from its keys to their values.
NilMap == [isNil |-> TRUE, m |-> <<>>]
MakeMap(f) == [isNil |-> FALSE, m |-> f]

\* m[key] = val, on a map that is not nil
MapSet(mp, key, val) ==
    MakeMap([x \in DOMAIN mp.m \cup {key} |-> IF x = key THEN val ELSE mp.m[x]])

\* Call{Tool, Input, Message}: the parsed form of a tool invocation
Call(tool, input, message) == [Tool |-> tool, Input |-> input, Message |-> message]
ZeroCall == Call(<<>>, NilMap, <<>>)

\* AskArgs{Message}
AskArgs(message) == [Message |-> message]
ZeroAskArgs == AskArgs(<<>>)

\* The members of a JSON object stored into a map[string]string one after
\* the other: a string is stored, null stores the zero value, anything else
\* is a type error (and decoding goes on).
RECURSIVE DecodeMapMembers(_, _)
DecodeMapMembers(ms, acc) ==
    IF ms = <<>> THEN acc
    ELSE LET e == Head(ms)
             val == IF e.val.k = "str" THEN e.val.s ELSE <<>>
         IN  DecodeMapMembers(Tail(ms),
                 [err |-> acc.err \/ e.val.k \notin {"str", "null"},
                  v |-> MapSet(acc.v, e.key, val)])

\* A JSON value stored into a map[string]string that now holds old.
DecodeMap(v, old) ==
    IF v.k = "null" THEN [err |-> FALSE, v |-> NilMap]
    ELSE IF v.k = "obj"
         THEN DecodeMapMembers(v.m,
                  [err |-> FALSE, v |-> IF old.isNil THEN MakeMap(<<>>) ELSE old])
    ELSE [err |-> TRUE, v |-> old]

\* A JSON value stored into a string that now holds old.
DecodeString(v, old) ==
    IF v.k = "str" THEN [err |-> FALSE, v |-> v.s]
    ELSE IF v.k = "null" THEN [err |-> FALSE, v |-> old]
    ELSE [err |-> TRUE, v |-> old]

\* The members of a JSON object stored into a Call; unknown keys are skipped.
RECURSIVE DecodeCallMembers(_, _)
DecodeCallMembers(ms, acc) ==
    IF ms = <<>> THEN acc
    ELSE LET e == Head(ms)
             c == acc.v
             next ==
                 IF e.key = str_tool
                 THEN LET d == DecodeString(e.val, c.Tool)
                      IN  [err |-> d.err, v |-> Call(d.v, c.Input, c.Message)]
                 ELSE IF e.key = str_input
                 THEN LET d == DecodeMap(e.val, c.Input)
                      IN  [err |-> d.err, v |-> Call(c.Tool, d.v, c.Message)]
                 ELSE IF e.key = str_message
                 THEN LET d == DecodeString(e.val, c.Message)
                      IN  [err |-> d.err, v |-> Call(c.Tool, c.Input, d.v)]
                 ELSE [err |-> FALSE, v |-> c]
         IN  DecodeCallMembers(Tail(ms), [err |-> acc.err \/ next.err, v |-> next.v])

\* json.Unmarshal(text, &c) for a zero Call c
UnmarshalCallJSON(text) ==
    LET r == ParseJSON(text) IN
    IF ~r.ok THEN [err |-> TRUE, v |-> ZeroCall]
    ELSE IF r.val.k = "null" THEN [err |-> FALSE, v |-> ZeroCall]
    ELSE IF r.val.k = "obj"
         THEN DecodeCallMembers(r.val.m, [err |-> FALSE, v |-> ZeroCall])
    ELSE [err |-> TRUE, v |-> ZeroCall]

\* The members of a JSON object stored into an AskArgs.
RECURSIVE DecodeAskMembers(_, _)
DecodeAskMembers(ms, acc) ==
    IF ms = <<>> THEN acc
    ELSE LET e == Head(ms)
             d == IF e.key = str_message
                  THEN DecodeString(e.val, acc.v.Message)
                  ELSE [err |-> FALSE, v |-> acc.v.Message]
         IN  DecodeAskMembers(Tail(ms), [err |-> acc.err \/ d.err, v |-> AskArgs(d.v)])

\* json.Unmarshal(text, args) for a zero AskArgs
UnmarshalAskArgsJSON(text) ==
    LET r == ParseJSON(text) IN
    IF ~r.ok THEN [err |-> TRUE, v |-> ZeroAskArgs]
    ELSE IF r.val.k = "null" THEN [err |-> FALSE, v |-> ZeroAskArgs]
    ELSE IF r.val.k = "obj"
         THEN DecodeAskMembers(r.val.m, [err |-> FALSE, v |-> ZeroAskArgs])
    ELSE [err |-> TRUE, v |-> ZeroAskArgs]

\* "key":"value" for each key of ks in turn, separated by commas
RECURSIVE MarshalEntries(_, _)
MarshalEntries(ks, f) ==
    IF ks = <<>> THEN <<>>
    ELSE Cat3(QuoteString(Head(ks)), <<":">>, QuoteString(f[Head(ks)]))
         \o (IF Len(ks) > 1 THEN <<",">> ELSE <<>>)
         \o MarshalEntries(Tail(ks), f)

\* json.Marshal of a map[string]string: null for the nil map, else the
\* entries in key order.
MarshalMap(mp) ==
    IF mp.isNil THEN str_null
    ELSE Cat3(<<"{">>, MarshalEntries(SortKeys(DOMAIN mp.m), mp.m), <<"}">>)

\* Whether json.Marshal fails on a map[string]string: it never does (a
\* string of any bytes is encoded).
MarshalMapFails(mp) == FALSE

\* json.Marshal of an AskArgs
MarshalAskArgs(a) ==
    Cat3(<<"{">>, Cat3(QuoteString(str_message), <<":">>, QuoteString(a.Message)), <<"}">>)

\* json.Unmarshal(text, &m) for a nil map[string]string m
UnmarshalMapJSON(text) ==
    LET r == ParseJSON(text) IN
    IF ~r.ok THEN [err |-> TRUE, v |-> NilMap] ELSE DecodeMap(r.val, NilMap)

-----------------------------------------------------------------------------
(* database.Task *)

\* sql.NullString
NullString(str, valid) == [String |-> str, Valid |-> valid]
Null == NullString(<<>>, FALSE)
StringToNullString(str) == NullString(str, TRUE)

Task(type, status, args, results, message, toolCallID) ==
    [Type |-> type, Status |-> status, Args |-> args, Results |-> results,
     Message |-> message, ToolCallID |-> toolCallID]

\* database.Task{}
ZeroTask == Task(Null, Null, Null, Null, Null, Null)

\* A *database.Task and an error, as the constructors return them.
NoError == "nil"
NilTask == [isNil |-> TRUE, v |-> ZeroTask]
Ptr(t) == [isNil |-> FALSE, v |-> t]
Return(task, err) == [task |-> task, err |-> err]

-----------------------------------------------------------------------------
(* llms.MessageContent, with its one part *)

Turn(role, kind, text, id, name, arguments, content) ==
    [Role |-> role, Kind |-> kind, Text |-> text, ID |-> id, Name |-> name,
     Arguments |-> arguments, Content |-> content]

TextTurn(role, text) == Turn(role, "text", text, <<>>, <<>>, <<>>, <<>>)
ToolCallTurn(id, name, arguments) ==
    Turn("ai", "tool_call", <<>>, id, name, arguments, <<>>)
ToolCallResponseTurn(id, name, content) ==
    Turn("tool", "tool_response", <<>>, id, name, <<>>, content)

-----------------------------------------------------------------------------
(* providers.go *)

\* defaultAskTask with a tool call id set, as toolToTask sets one
defaultAskTask_withCallID(message) ==
    Task(StringToNullString(str_ask), Null, StringToNullString(str_emptyObject),
         Null, NullString(message \o str_whatNext, TRUE), StringToNullString(str_ask))

defaultAskTask(message) ==
    Task(StringToNullString(str_ask), Null, StringToNullString(str_emptyObject),
         Null, NullString(message \o str_whatNext, TRUE), Null)

\* the loop body with the ask branch taken whatever the tool call id
taskMessages_askAlways(task, p) ==
    (IF task.Type.String = str_input THEN <<TextTurn("human", p)>> ELSE <<>>)
    \o (IF task.ToolCallID.String # <<>>
        THEN << ToolCallTurn(task.ToolCallID.String, task.Type.String, task.Args.String),
                ToolCallResponseTurn(task.ToolCallID.String, task.Type.String,
                                     task.Results.String) >>
        ELSE <<>>)
    \o (IF task.Type.String = str_ask
        THEN <<TextTurn("ai", task.Message.String)>>
        ELSE <<>>)

\* the loop body with the human turn of an input task appended after the
\* tool invocation instead of before it
taskMessages_humanBetween(task, p) ==
    (IF task.ToolCallID.String # <<>>
     THEN <<ToolCallTurn(task.ToolCallID.String, task.Type.String, task.Args.String)>>
     ELSE <<>>)
    \o (IF task.Type.String = str_input THEN <<TextTurn("human", p)>> ELSE <<>>)
    \o (IF task.ToolCallID.String # <<>>
        THEN <<ToolCallResponseTurn(task.ToolCallID.String, task.Type.String,
                                    task.Results.String)>>
        ELSE <<>>)
    \o (IF task.Type.String = str_ask /\ task.ToolCallID.String = <<>>
        THEN <<TextTurn("ai", task.Message.String)>>
        ELSE <<>>)

\* the turns one task adds to the conversation: the body of the loop
taskMessages(task, p) ==
    (IF task.Type.String = str_input THEN <<TextTurn("human", p)>> ELSE <<>>)
    \o (IF task.ToolCallID.String # <<>>
        THEN << ToolCallTurn(task.ToolCallID.String, task.Type.String, task.Args.String),
                ToolCallResponseTurn(task.ToolCallID.String, task.Type.String,
                                     task.Results.String) >>
        ELSE <<>>)
    \o (IF task.Type.String = str_ask /\ task.ToolCallID.String = <<>>
        THEN <<TextTurn("ai", task.Message.String)>>
        ELSE <<>>)

\* the loop with each task's turns put before those of the tasks after it
\* were put, so that the last task comes first
RECURSIVE appendTasks_lastFirst(_, _, _)
appendTasks_lastFirst(msgs, ts, p) ==
    IF ts = <<>> THEN msgs
    ELSE appendTasks_lastFirst(msgs, Tail(ts), p) \o taskMessages(Head(ts), p)

RECURSIVE appendTasks(_, _, _)
appendTasks(msgs, ts, p) ==
    IF ts = <<>> THEN msgs
    ELSE appendTasks(msgs \o taskMessages(Head(ts), p), Tail(ts), p)

tasksToMessages(ts, p) == appendTasks(<<TextTurn("system", p)>>, ts, p)

\* nil, or the call
unmarshalCall(input) ==
    LET d == UnmarshalCallJSON(input) IN
    IF d.err THEN [isNil |-> TRUE, v |-> ZeroCall]
    ELSE IF d.v.Tool # <<>> THEN [isNil |-> FALSE, v |-> d.v]
    ELSE [isNil |-> TRUE, v |-> ZeroCall]

\* textToTask that asks the user itself when the call does not parse
textToTask_askOnFailure(text) ==
    LET c == unmarshalCall(text) IN
    IF c.isNil THEN Return(Ptr(defaultAskTask(str_terminalError)), NoError)
    ELSE LET argText == MarshalMap(c.v.Input)
             msg == IF c.v.Message = <<>> THEN argText ELSE c.v.Message
         IN  Return(Ptr(Task(StringToNullString(c.v.Tool),
                             StringToNullString(str_in_progress),
                             StringToNullString(argText),
                             Null,
                             StringToNullString(msg),
                             Null)),
                    NoError)

\* textToTask without the default for an empty message
textToTask_noMessageDefault(text) ==
    LET c == unmarshalCall(text) IN
    IF c.isNil THEN Return(NilTask, "can't unmarshalCall")
    ELSE Return(Ptr(Task(StringToNullString(c.v.Tool),
                         StringToNullString(str_in_progress),
                         StringToNullString(MarshalMap(c.v.Input)),
                         Null,
                         StringToNullString(c.v.Message),
                         Null)),
                NoError)

\* textToTask that stores msg, not arg, as the args
textToTask_argsFromMessage(text) ==
    LET c == unmarshalCall(text) IN
    IF c.isNil THEN Return(NilTask, "can't unmarshalCall")
    ELSE LET argText == MarshalMap(c.v.Input)
             msg == IF c.v.Message = <<>> THEN argText ELSE c.v.Message
         IN  Return(Ptr(Task(StringToNullString(c.v.Tool),
                             StringToNullString(str_in_progress),
                             StringToNullString(msg),
                             Null,
                             StringToNullString(msg),
                             Null)),
                    NoError)

textToTask(text) ==
    LET c == unmarshalCall(text) IN
    IF c.isNil THEN Return(NilTask, "can't unmarshalCall")
    ELSE IF MarshalMapFails(c.v.Input)
    THEN Return(Ptr(defaultAskTask(str_terminalError)), NoError)
    ELSE LET argText == MarshalMap(c.v.Input)
             msg == IF c.v.Message = <<>> THEN argText ELSE c.v.Message
         IN  Return(Ptr(Task(StringToNullString(c.v.Tool),
                             StringToNullString(str_in_progress),
                             StringToNullString(argText),
                             Null,
                             StringToNullString(msg),
                             Null)),
                    NoError)

extractToolArgs(functionArgs) == UnmarshalAskArgsJSON(functionArgs)

\* llms.ToolCall with its FunctionCall, and llms.ContentChoice
ToolCall(id, name, arguments) ==
    [ID |-> id, FunctionCall |-> [Name |-> name, Arguments |-> arguments]]
ContentChoice(toolCalls) == [ToolCalls |-> toolCalls]

\* toolToTask that decodes the arguments before it looks at the tool name
toolToTask_decodeFirst(choices) ==
    IF Len(choices) = 0 THEN Return(NilTask, "no choices found, asking user")
    ELSE LET toolCalls == choices[1].ToolCalls IN
    IF Len(toolCalls) = 0 THEN Return(NilTask, "no tool calls found, asking user")
    ELSE LET tool == toolCalls[1]
             params == UnmarshalAskArgsJSON(tool.FunctionCall.Arguments) IN
    IF params.err THEN Return(NilTask, "failed to extract args")
    ELSE IF tool.FunctionCall.Name = <<>>
    THEN Return(NilTask, "no tool name found, asking user")
    ELSE LET args == MarshalAskArgs(params.v)
             msg == IF params.v.Message = <<>>
                    THEN tool.FunctionCall.Arguments
                    ELSE params.v.Message
         IN  Return(Ptr(Task(StringToNullString(tool.FunctionCall.Name),
                             StringToNullString(str_in_progress),
                             StringToNullString(args),
                             Null,
                             StringToNullString(msg),
                             StringToNullString(tool.ID))),
                    NoError)

toolToTask(choices) ==
    IF Len(choices) = 0 THEN Return(NilTask, "no choices found, asking user")
    ELSE LET toolCalls == choices[1].ToolCalls IN
    IF Len(toolCalls) = 0 THEN Return(NilTask, "no tool calls found, asking user")
    ELSE LET tool == toolCalls[1] IN
    IF tool.FunctionCall.Name = <<>>
    THEN Return(NilTask, "no tool name found, asking user")
    ELSE LET params == extractToolArgs(tool.FunctionCall.Arguments) IN
    IF params.err THEN Return(NilTask, "failed to extract args")
    ELSE LET args == MarshalAskArgs(params.v)
             msg == IF params.v.Message = <<>>
                    THEN tool.FunctionCall.Arguments
                    ELSE params.v.Message
         IN  Return(Ptr(Task(StringToNullString(tool.FunctionCall.Name),
                             StringToNullString(str_in_progress),
                             StringToNullString(args),
                             Null,
                             StringToNullString(msg),
                             StringToNullString(tool.ID))),
                    NoError)

-----------------------------------------------------------------------------
(* The inputs the model draws *)

\* JSON text as a model writes it: the members in the order given
RECURSIVE WriteJSON(_)
RECURSIVE WriteMembers(_)
WriteJSON(v) ==
    IF v.k = "str" THEN QuoteString(v.s)
    ELSE IF v.k = "num" THEN v.s
    ELSE IF v.k = "null" THEN str_null
    ELSE Cat3(<<"{">>, WriteMembers(v.m), <<"}">>)
WriteMembers(ms) ==
    IF ms = <<>> THEN <<>>
    ELSE Cat3(QuoteString(Head(ms).key), <<":">>, WriteJSON(Head(ms).val))
         \o (IF Len(ms) > 1 THEN <<",", " ">> ELSE <<>>)
         \o WriteMembers(Tail(ms))

str_cmd == <<"c", "m", "d">>
str_ls == <<"l", "s">>
str_run == <<"r", "u", "n">>
str_a == <<"a">>

\* a completion text: an object with message, input and tool, in that order
CallText(message, input, tool) ==
    WriteJSON(JObj(<<Member(str_message, JStr(message)), Member(str_input, input),
                     Member(str_tool, JStr(tool))>>))

\* the texts a completion may hold
Texts ==
    { <<>>, <<"{">>, str_ls, str_null, <<"{", "}", "}">>,
      WriteJSON(JObj(<<>>)),
      WriteJSON(JObj(<<Member(str_tool, JStr(<<>>)), Member(str_message, JStr(str_run))>>)),
      WriteJSON(JObj(<<Member(str_tool, JNum(<<"1">>))>>)),
      WriteJSON(JObj(<<Member(str_tool, JStr(str_terminal))>>)),
      WriteJSON(JObj(<<Member(str_tool, JStr(str_terminal)),
                       Member(str_input, JObj(<<Member(str_a, JStr(str_a))>>)),
                       Member(str_input, JObj(<<Member(str_cmd, JStr(str_ls))>>))>>)),
      CallText(<<>>, JObj(<<>>), str_ask),
      CallText(str_run, JObj(<<Member(str_cmd, JStr(str_ls))>>), str_terminal),
      CallText(<<>>, JObj(<<Member(str_cmd, JStr(<<Quote, Backslash>>)),
                            Member(str_a, JStr(<<>>))>>), str_terminal),
      CallText(str_run, JNull, str_ask),
      CallText(<<>>, JObj(<<Member(str_cmd, JNull)>>), str_terminal),
      CallText(str_run, JObj(<<Member(str_cmd, JNum(<<"1">>))>>), str_terminal),
      CallText(<<>>, JStr(str_ls), str_ask) }

str_call1 == <<"c", "1">>
str_call2 == <<"c", "2">>

\* the argument blobs of a tool call
ArgumentTexts ==
    { <<>>, WriteJSON(JObj(<<>>)), WriteJSON(JObj(<<Member(str_message, JStr(str_run))>>)) }

ToolCalls ==
    { ToolCall(id, name, a) :
        id \in {<<>>, str_call1}, name \in {<<>>, str_ask, str_terminal},
        a \in ArgumentTexts }
    \cup
    { ToolCall(str_call1, str_terminal, a) :
        a \in { <<"{">>, str_null, <<"1">>,
                WriteJSON(JObj(<<Member(str_input, JStr(str_ls))>>)),
                WriteJSON(JObj(<<Member(str_message, JStr(<<>>))>>)),
                WriteJSON(JObj(<<Member(str_message, JNum(<<"1">>))>>)) } }

\* a second tool call, and a second choice, which toolToTask does not read
OtherToolCall == ToolCall(str_call2, str_terminal, WriteJSON(JObj(<<>>)))

ChoiceLists ==
    { <<>>,
      <<ContentChoice(<<>>)>>,
      <<ContentChoice(<<>>), ContentChoice(<<OtherToolCall>>)>> }
    \cup { <<ContentChoice(<<tc>>)>> : tc \in ToolCalls }
    \cup { <<ContentChoice(<<tc, OtherToolCall>>), ContentChoice(<<OtherToolCall>>)>> :
             tc \in { ToolCall(str_call1, n, <<>>) : n \in {<<>>, str_ask} }
                    \cup {ToolCall(<<>>, str_ask, str_null)} }

\* the explanations given to defaultAskTask
AskMessages == {<<>>, str_terminalError}

Prompts == {<<"p">>, <<"q">>}

str_out == <<"o", "u", "t">>

\* the task records a store may hold
Records ==
    { Task(type, Null, StringToNullString(str_emptyObject), results,
           StringToNullString(str_run), id) :
        type \in {Null, StringToNullString(str_input), StringToNullString(str_ask),
                  StringToNullString(str_terminal)},
        results \in {Null},
        id \in {Null, StringToNullString(<<>>), StringToNullString(str_call1)} }
    \cup
    { Task(StringToNullString(type), StringToNullString(str_done),
           StringToNullString(str_emptyObject), StringToNullString(str_out),
           StringToNullString(str_run), StringToNullString(str_call2)) :
        type \in {str_input, str_ask, str_terminal} }

\* the task a human turn is stored as
InputTask ==
    Task(StringToNullString(str_input), StringToNullString(str_done),
         StringToNullString(str_emptyObject), Null, StringToNullString(str_run), Null)

-----------------------------------------------------------------------------
(* The flow *)

NoCall == [fn |-> "none", in |-> <<>>]

Init ==
    /\ tasks = <<>>
    /\ prompt \in Prompts
    /\ messages = <<>>
    /\ arg = NoCall
    /\ ret = Return(NilTask, NoError)
    /\ pc = "idle"

\* The store is read: it holds one more record of the flow.
LoadTask(r) ==
    /\ pc \in {"idle", "translated"}
    /\ Len(tasks) < MaxTasks
    /\ tasks' = Append(tasks, r)
    /\ pc' = "idle"
    /\ UNCHANGED <<prompt, messages, arg, ret>>

\* The human's turn is stored.
HumanInput ==
    /\ pc = "idle"
    /\ Len(tasks) < MaxFlow
    /\ tasks' = Append(tasks, InputTask)
    /\ UNCHANGED <<prompt, messages, arg, ret, pc>>

\* NextTask: the history is translated for the completion call.
Translate ==
    /\ pc = "idle"
    /\ messages' = tasksToMessages(tasks, prompt)
    /\ pc' = "translated"
    /\ UNCHANGED <<tasks, prompt, arg, ret>>

\* NextTask: the completion came back as text.
TextToTask(text) ==
    /\ pc = "translated"
    /\ arg' = [fn |-> "textToTask", in |-> text]
    /\ ret' = textToTask(text)
    /\ pc' = "returned"
    /\ UNCHANGED <<tasks, prompt, messages>>

\* NextTask: the completion came back as tool-call choices.
ToolToTask(choices) ==
    /\ pc = "translated"
    /\ arg' = [fn |-> "toolToTask", in |-> choices]
    /\ ret' = toolToTask(choices)
    /\ pc' = "returned"
    /\ UNCHANGED <<tasks, prompt, messages>>

\* NextTask: the completion call or the constructor failed, the user is asked.
DefaultAskTask(message) ==
    /\ \/ pc = "translated"
       \/ pc = "returned" /\ ret.err # NoError
    /\ arg' = [fn |-> "defaultAskTask", in |-> message]
    /\ ret' = Return(Ptr(defaultAskTask(message)), NoError)
    /\ pc' = "returned"
    /\ UNCHANGED <<tasks, prompt, messages>>

\* The task NextTask returned is stored at the end of the history.
Persist ==
    /\ pc = "returned"
    /\ ~ret.task.isNil
    /\ Len(tasks) < MaxFlow
    /\ tasks' = Append(tasks, ret.task.v)
    /\ pc' = "idle"
    /\ UNCHANGED <<prompt, messages, arg, ret>>

Next ==
    \/ HumanInput
    \/ Translate
    \/ \E text \in Texts : TextToTask(text)
    \/ \E choices \in ChoiceLists : ToolToTask(choices)
    \/ \E message \in AskMessages : DefaultAskTask(message)
    \/ Persist

\* the flow: a history is translated, a task is constructed and stored
Spec == Init /\ [][Next]_vars

NextTranslator ==
    \/ \E r \in Records : LoadTask(r)
    \/ Translate

\* the translator over the histories a store may hold
TranslatorSpec == Init /\ [][NextTranslator]_vars

-----------------------------------------------------------------------------
(* Properties *)

Last(s) == s[Len(s)]
Front(s) == SubSeq(s, 1, Len(s) - 1)
IsPrefix(s, t) == Len(s) <= Len(t) /\ SubSeq(t, 1, Len(s)) = s

\* The turns of one task as section 8 of the specification counts them.
ClaimedTurnCount(t) ==
    IF t.ToolCallID.String # <<>> THEN 2
    ELSE IF t.Type.String = str_ask THEN 1
    ELSE 0

\* The turns of one task with the human turn of an input task counted.
TurnCount(t) ==
    (IF t.Type.String = str_input THEN 1 ELSE 0) + ClaimedTurnCount(t)

RECURSIVE SumClaimedTurns(_)
SumClaimedTurns(ts) ==
    IF ts = <<>> THEN 0 ELSE ClaimedTurnCount(Head(ts)) + SumClaimedTurns(Tail(ts))

RECURSIVE SumTurns(_)
SumTurns(ts) ==
    IF ts = <<>> THEN 0 ELSE TurnCount(Head(ts)) + SumTurns(Tail(ts))

\* C1, as stated: every task with a non-empty toolCallId yields two turns,
\* every task with an empty toolCallId and type ask yields one, and every
\* other task, one of type input included, yields none; so a translated
\* history has one system turn and that many turns for each task.
C1_TurnsAsStated ==
    pc = "translated" => Len(messages) = 1 + SumClaimedTurns(tasks)

\* C1, amended: a task of type input yields one human turn, before the two
\* turns of a non-empty toolCallId or the one turn of an ask without one;
\* a task that is none of these yields no turn.
C1_Turns ==
    pc = "translated" =>
        /\ Len(messages) = 1 + SumTurns(tasks)
        /\ \A k \in 1..Len(tasks) :
             Len(tasksToMessages(SubSeq(tasks, 1, k), prompt))
               = Len(tasksToMessages(SubSeq(tasks, 1, k - 1), prompt)) + TurnCount(tasks[k])

\* a history with an input task that carries a tool call id (three turns)
\* and a task without type or tool call id (no turn) has been translated
C1_Witness ==
    /\ pc = "translated"
    /\ \E i, j \in 1..Len(tasks) :
         /\ tasks[i].Type.String = str_input /\ tasks[i].ToolCallID.String # <<>>
         /\ ~tasks[j].Type.Valid /\ tasks[j].ToolCallID.String = <<>>
    /\ Len(messages) = 4

\* the index in messages of the last turn before those of tasks[k]'s tool call
CallOffset(k) ==
    1 + SumTurns(SubSeq(tasks, 1, k - 1))
      + (IF tasks[k].Type.String = str_input THEN 1 ELSE 0)

\* C2: in a translated history every tool-result turn comes right after an
\* assistant tool-invocation turn with the same call id and function name,
\* every tool-invocation turn is followed at once by such a result turn, and
\* the pair of a task carries the task's toolCallId, type, args and results.
C2_Pairing ==
    pc = "translated" =>
        /\ \A i \in 1..Len(messages) :
             messages[i].Kind = "tool_response" =>
                 /\ i > 1
                 /\ messages[i].Role = "tool"
                 /\ messages[i - 1].Kind = "tool_call"
                 /\ messages[i - 1].Role = "ai"
                 /\ messages[i - 1].ID = messages[i].ID
                 /\ messages[i - 1].Name = messages[i].Name
        /\ \A i \in 1..Len(messages) :
             messages[i].Kind = "tool_call" =>
                 /\ i < Len(messages)
                 /\ messages[i + 1].Kind = "tool_response"
                 /\ messages[i + 1].ID = messages[i].ID
                 /\ messages[i + 1].Name = messages[i].Name
        /\ \A k \in 1..Len(tasks) :
             tasks[k].ToolCallID.String # <<>> =>
                 /\ CallOffset(k) + 2 <= Len(messages)
                 /\ messages[CallOffset(k) + 1]
                      = ToolCallTurn(tasks[k].ToolCallID.String, tasks[k].Type.String,
                                     tasks[k].Args.String)
                 /\ messages[CallOffset(k) + 2]
                      = ToolCallResponseTurn(tasks[k].ToolCallID.String,
                                             tasks[k].Type.String, tasks[k].Results.String)

\* two tool calls have been translated, one with results and one without
C2_Witness ==
    /\ pc = "translated"
    /\ Len(tasks) = 2
    /\ tasks[1].ToolCallID.String # <<>> /\ tasks[1].Results.String = <<>>
    /\ tasks[2].ToolCallID.String # <<>> /\ tasks[2].Results.String # <<>>
    /\ tasks[1].Type # tasks[2].Type
    /\ messages[3].Kind = "tool_response" /\ messages[5].Content = str_out

\* the turns of the tasks of ts one after the other
RECURSIVE Flatten(_, _)
Flatten(ts, p) ==
    IF ts = <<>> THEN <<>> ELSE taskMessages(Head(ts), p) \o Flatten(Tail(ts), p)

C3_Shape ==
    pc = "translated" =>
        /\ messages[1] = TextTurn("system", prompt)
        /\ \A i \in 2..Len(messages) : messages[i].Role # "system"
        /\ messages = <<TextTurn("system", prompt)>> \o Flatten(tasks, prompt)
        /\ tasks = <<>> => Len(messages) = 1

\* a translation only adds turns after those of the translation before it
C3_Extends ==
    (pc' = "translated" /\ messages # <<>>) => IsPrefix(messages, messages')

\* C3: a translated history is one system turn with the prompt, first and
\* nowhere else, then the turns of each task in the order of the tasks; a
\* history with tasks added at its end translates to the turns it had
\* before and then more turns; the empty history yields the system turn alone.
C3_Order == [](C3_Shape) /\ [][C3_Extends]_vars

\* a history of an ask task and an input task with a tool call has been translated
C3_Witness ==
    /\ pc = "translated"
    /\ Len(tasks) = 2
    /\ TurnCount(tasks[1]) = 1 /\ TurnCount(tasks[2]) = 3
    /\ tasks[1].Type.String = str_ask
    /\ Len(messages) = 5

\* C4, as stated: every Task a constructor returns, the ask-fallback Task of
\* defaultAskTask included, has status in_progress.
C4_StatusInProgress ==
    (pc = "returned" /\ ~ret.task.isNil) =>
        ret.task.v.Status = StringToNullString(str_in_progress)

\* the text is one the Call Parser cannot parse
Unparseable(text) ==
    LET d == UnmarshalCallJSON(text) IN d.err \/ d.v.Tool = <<>>

IsAskFallback(t) ==
    /\ t.Type.String = str_ask
    /\ t.Args.String = str_emptyObject
    /\ Len(t.Message.String) > Len(str_whatNext)
    /\ SubSeq(t.Message.String, Len(t.Message.String) - Len(str_whatNext) + 2,
              Len(t.Message.String)) = Tail(str_whatNext)

\* C5, as stated: textToTask on text the Call Parser cannot parse returns
\* no error but an ask-fallback Task.
C5_FallbackAsStated ==
    (pc = "returned" /\ arg.fn = "textToTask" /\ Unparseable(arg.in)) =>
        /\ ret.err = NoError
        /\ ~ret.task.isNil
        /\ IsAskFallback(ret.task.v)

\* C5, amended: textToTask on text the Call Parser cannot parse returns an
\* error and no Task; the ask-fallback Task is left to its caller.
C5_ParseFailure ==
    (pc = "returned" /\ arg.fn = "textToTask" /\ Unparseable(arg.in)) =>
        /\ ret.err = "can't unmarshalCall"
        /\ ret.task.isNil

\* textToTask has returned for a text that decodes to a call without a tool
C5_Witness ==
    /\ pc = "returned"
    /\ arg.fn = "textToTask"
    /\ ~UnmarshalCallJSON(arg.in).err
    /\ UnmarshalCallJSON(arg.in).v.Tool = <<>>
    /\ UnmarshalCallJSON(arg.in).v.Message # <<>>

\* the failure the specification names for a list of choices
ExpectedFailure(choices) ==
    IF choices = <<>> THEN "no choices found, asking user"
    ELSE IF choices[1].ToolCalls = <<>> THEN "no tool calls found, asking user"
    ELSE IF choices[1].ToolCalls[1].FunctionCall.Name = <<>>
         THEN "no tool name found, asking user"
    ELSE IF UnmarshalAskArgsJSON(choices[1].ToolCalls[1].FunctionCall.Arguments).err
         THEN "failed to extract args"
    ELSE NoError

C7_MessageNonEmpty ==
    (pc = "returned" /\ ~ret.task.isNil) =>
        /\ ret.task.v.Message.Valid
        /\ ret.task.v.Message.String # <<>>
        /\ (arg.fn = "textToTask" /\ UnmarshalCallJSON(arg.in).v.Message = <<>>) =>
             /\ ret.task.v.Message.String = ret.task.v.Args.String
             /\ ret.task.v.Args.String # <<>>
        /\ (arg.fn = "toolToTask"
            /\ UnmarshalAskArgsJSON(arg.in[1].ToolCalls[1].FunctionCall.Arguments).v.Message
                 = <<>>) =>
             /\ ret.task.v.Message.String = arg.in[1].ToolCalls[1].FunctionCall.Arguments
             /\ arg.in[1].ToolCalls[1].FunctionCall.Arguments # <<>>

\* textToTask has built a Task from a call with an empty message and no input
C7_Witness ==
    /\ pc = "returned"
    /\ arg.fn = "textToTask"
    /\ ~ret.task.isNil
    /\ UnmarshalCallJSON(arg.in).v.Message = <<>>
    /\ UnmarshalCallJSON(arg.in).v.Input.isNil
    /\ ret.task.v.Message.String = str_null

\* C8: toolToTask sets toolCallId to the id of the first tool call of the
\* first choice; textToTask and defaultAskTask leave it absent; and the Task
\* of defaultAskTask, stored at the end of a history, is translated to one
\* plain assistant turn with its message.
C8_ToolCallID ==
    ~ret.task.isNil =>
        /\ arg.fn = "toolToTask" =>
             ret.task.v.ToolCallID = StringToNullString(arg.in[1].ToolCalls[1].ID)
        /\ arg.fn \in {"textToTask", "defaultAskTask"} => ret.task.v.ToolCallID = Null
        /\ (arg.fn = "defaultAskTask" /\ pc = "translated" /\ tasks # <<>>
            /\ Last(tasks) = ret.task.v) =>
             /\ Len(messages) = 1 + SumTurns(Front(tasks)) + 1
             /\ Last(messages) = TextTurn("ai", ret.task.v.Message.String)

\* the Task of defaultAskTask was stored and the history translated
C8_Witness ==
    /\ pc = "translated"
    /\ arg.fn = "defaultAskTask"
    /\ tasks # <<>>
    /\ Last(tasks) = ret.task.v
    /\ Last(messages).Role = "ai"
    /\ Last(messages).Text = str_terminalError \o str_whatNext

\* C9: the Task textToTask builds from a call has the call's tool as type,
\* and its args, parsed again as a JSON object of strings, are the call's
\* input: the same keys with the same values.
C9_RoundTrip ==
    (pc = "returned" /\ arg.fn = "textToTask" /\ ~ret.task.isNil) =>
        LET c == unmarshalCall(arg.in) IN
        /\ ~c.isNil
        /\ ret.task.v.Type.String = c.v.Tool
        /\ UnmarshalMapJSON(ret.task.v.Args.String) = [err |-> FALSE, v |-> c.v.Input]

\* textToTask has built a Task from an input of two keys, written out of
\* order, one value holding a quote and a backslash
C9_Witness ==
    /\ pc = "returned"
    /\ arg.fn = "textToTask"
    /\ ~ret.task.isNil
    /\ LET in == unmarshalCall(arg.in).v.Input IN
       /\ ~in.isNil
       /\ DOMAIN in.m = {str_a, str_cmd}
       /\ in.m[str_cmd] = <<Quote, Backslash>>

\* C10, as stated: a Task toolToTask returns never has an empty toolCallId,
\* and stored at the end of a history it is translated to a tool-invocation
\* turn and a tool-result turn.
C10_AlwaysPaired ==
    (arg.fn = "toolToTask" /\ ~ret.task.isNil) =>
        /\ ret.task.v.ToolCallID.String # <<>>
        /\ (pc = "translated" /\ tasks # <<>> /\ Last(tasks) = ret.task.v) =>
             /\ Len(messages) = 1 + SumTurns(Front(tasks)) + 2
             /\ messages[Len(messages) - 1].Kind = "tool_call"
             /\ Last(messages).Kind = "tool_response"

====
